---- MODULE Spec2Model ----
(***************************************************************************)
(* Phone-number input of Dariatravel/travel_time.                          *)
(*                                                                         *)
(* Two variants of the component are modelled:                             *)
(*   "PhoneInput"  src/src/shared/ui/PhoneInput/PhoneInput.tsx             *)
(*   "part_000"    src/unnamed/part_000                                    *)
(*                                                                         *)
(* A string is a sequence of one-character strings.  The form field value  *)
(* is `value`; every change, keystroke, backspace or paste event runs the  *)
(* variant's handler to completion and commits the result to the field.    *)
(***************************************************************************)
EXTENDS Integers, Sequences, FiniteSets, TLC

VARIABLES
  variant,   \* which source file's component is mounted
  value,     \* field.value, the committed form value
  raw,       \* event.target.value / clipboard text of the last event
  op,        \* kind of the last event
  keys,      \* digits typed one keystroke at a time since the field was empty
  prev1,     \* previous value handed to the typed handler (first evaluation)
  prev2,     \* previous value handed to the typed handler (second evaluation)
  out1,      \* value committed by the typed handler for (raw, prev1)
  out2,      \* value committed by the typed handler for (raw, prev2)
  intl,      \* result of the classifier on (raw, digitsOnly(raw))
  fmt,       \* RU formatter applied to digitsOnly(raw)
  fmt2       \* RU formatter applied to the digits of fmt

vars == <<variant, value, raw, op, keys, prev1, prev2, out1, out2, intl, fmt, fmt2>>

fnVars == <<prev1, prev2, out1, out2, intl, fmt, fmt2>>

Variants == {"PhoneInput", "part_000"}

----------------------------------------------------------------------------
(* Bounds of the explored inputs *)

MaxDigits == 17

MaxKeys == 11

----------------------------------------------------------------------------
(* JavaScript string primitives used by the source *)

DigitChars == {"0", "1", "2", "3", "4", "5", "6", "7", "8", "9"}

IsDigit(c) == c \in DigitChars

IsSpace(c) == c = " "

Min(a, b) == IF a < b THEN a ELSE b

\* s.slice(a, b), 0-indexed, half-open
slice(s, a, b) == SubSeq(s, a + 1, Min(b, Len(s)))

\* s.slice(a)
sliceFrom(s, a) == SubSeq(s, a + 1, Len(s))

startsWith(s, p) == Len(s) >= Len(p) /\ SubSeq(s, 1, Len(p)) = p

RECURSIVE trimStart(_)
trimStart(s) ==
  IF s # <<>> /\ IsSpace(Head(s)) THEN trimStart(Tail(s)) ELSE s

RECURSIVE trimEnd(_)
trimEnd(s) ==
  IF s # <<>> /\ IsSpace(s[Len(s)]) THEN trimEnd(SubSeq(s, 1, Len(s) - 1)) ELSE s

trim(s) == trimEnd(trimStart(s))

AllDigits(s) == \A i \in 1..Len(s) : IsDigit(s[i])

----------------------------------------------------------------------------
(* PhoneInput.tsx *)

digitsOnly(s) == SelectSeq(s, IsDigit)

\* /^\+7\(\d{3}\)\d{3}-\d{2}-\d{2}$/
isRuMask(v) ==
  /\ Len(v) = 16
  /\ v[1] = "+" /\ v[2] = "7" /\ v[3] = "("
  /\ AllDigits(SubSeq(v, 4, 6))
  /\ v[7] = ")"
  /\ AllDigits(SubSeq(v, 8, 10))
  /\ v[11] = "-"
  /\ AllDigits(SubSeq(v, 12, 13))
  /\ v[14] = "-"
  /\ AllDigits(SubSeq(v, 15, 16))

\* /^\+\d{10,15}$/
isInternationalE164ish(v) ==
  /\ Len(v) >= 11 /\ Len(v) <= 16
  /\ v[1] = "+"
  /\ AllDigits(Tail(v))

\* the mask table shared by both RU formatters, applied to digits starting with 7
ruMask(d) ==
  IF Len(d) <= 1 THEN <<"+", "7">>
  ELSE IF Len(d) <= 4 THEN <<"+", "7", "(">> \o sliceFrom(d, 1)
  ELSE IF Len(d) <= 7 THEN <<"+", "7", "(">> \o slice(d, 1, 4) \o <<")">> \o sliceFrom(d, 4)
  ELSE IF Len(d) <= 9
    THEN <<"+", "7", "(">> \o slice(d, 1, 4) \o <<")">> \o slice(d, 4, 7)
           \o <<"-">> \o sliceFrom(d, 7)
  ELSE <<"+", "7", "(">> \o slice(d, 1, 4) \o <<")">> \o slice(d, 4, 7)
           \o <<"-">> \o slice(d, 7, 9) \o <<"-">> \o sliceFrom(d, 9)

\* the two-digit group opened one digit late: `d.length <= 8` for `d.length <= 9`
ruMask_lateDash(d) ==
  IF Len(d) <= 1 THEN <<"+", "7">>
  ELSE IF Len(d) <= 4 THEN <<"+", "7", "(">> \o sliceFrom(d, 1)
  ELSE IF Len(d) <= 7 THEN <<"+", "7", "(">> \o slice(d, 1, 4) \o <<")">> \o sliceFrom(d, 4)
  ELSE IF Len(d) <= 8
    THEN <<"+", "7", "(">> \o slice(d, 1, 4) \o <<")">> \o slice(d, 4, 7)
           \o <<"-">> \o sliceFrom(d, 7)
  ELSE <<"+", "7", "(">> \o slice(d, 1, 4) \o <<")">> \o slice(d, 4, 7)
           \o <<"-">> \o slice(d, 7, 9) \o <<"-">> \o sliceFrom(d, 9)

formatRuFromDigits_lateDash(digits) ==
  LET d0 == digitsOnly(digits)
      d1 == IF Len(d0) = 11 /\ startsWith(d0, <<"8">>) THEN <<"7">> \o sliceFrom(d0, 1) ELSE d0
      d2 == IF Len(d1) = 10 THEN <<"7">> \o d1 ELSE d1
  IN  IF ~startsWith(d2, <<"7">>) THEN d2
      ELSE ruMask_lateDash(slice(d2, 0, 11))

\* the truncation one digit short: `d.slice(0, 10)` for `d.slice(0, 11)`
formatRuFromDigits_cut10(digits) ==
  LET d0 == digitsOnly(digits)
      d1 == IF Len(d0) = 11 /\ startsWith(d0, <<"8">>) THEN <<"7">> \o sliceFrom(d0, 1) ELSE d0
      d2 == IF Len(d1) = 10 THEN <<"7">> \o d1 ELSE d1
  IN  IF ~startsWith(d2, <<"7">>) THEN d2
      ELSE ruMask(slice(d2, 0, 10))

formatRuFromDigits(digits) ==
  LET d0 == digitsOnly(digits)
      d1 == IF Len(d0) = 11 /\ startsWith(d0, <<"8">>) THEN <<"7">> \o sliceFrom(d0, 1) ELSE d0
      d2 == IF Len(d1) = 10 THEN <<"7">> \o d1 ELSE d1
  IN  IF ~startsWith(d2, <<"7">>) THEN d2
      ELSE ruMask(slice(d2, 0, 11))

\* the '+' kept only when the text had one
normalizeInternational_keepPlus(r) ==
  LET trimmed == trim(r)
      d == slice(digitsOnly(trimmed), 0, 15)
  IN  IF d = <<>> THEN <<>>
      ELSE IF startsWith(trimmed, <<"+">>) THEN <<"+">> \o d ELSE d

normalizeInternational(r) ==
  LET trimmed == trim(r)
      d == slice(digitsOnly(trimmed), 0, 15)
  IN  IF d = <<>> THEN <<>> ELSE <<"+">> \o d

\* the length rules without the test for a leading 8
shouldTreatAsInternational_no8(r, digits) ==
  LET trimmed == trim(r)
  IN  IF startsWith(trimmed, <<"+">>) /\ ~startsWith(trimmed, <<"+", "7">>) THEN TRUE
      ELSE IF Len(digits) > 11 /\ ~startsWith(digits, <<"7">>) THEN TRUE
      ELSE IF Len(digits) > 10 /\ ~startsWith(digits, <<"7">>) THEN TRUE
      ELSE FALSE

shouldTreatAsInternational(r, digits) ==
  LET trimmed == trim(r)
  IN  IF startsWith(trimmed, <<"+">>) /\ ~startsWith(trimmed, <<"+", "7">>) THEN TRUE
      ELSE IF Len(digits) > 11 /\ ~startsWith(digits, <<"7">>) /\ ~startsWith(digits, <<"8">>)
        THEN TRUE
      ELSE IF Len(digits) > 10 /\ ~startsWith(digits, <<"7">>) /\ ~startsWith(digits, <<"8">>)
        THEN TRUE
      ELSE FALSE

\* without the early return of an already final value
handleChange_reformat(r, prev) ==
  IF r = <<>> THEN <<>>
  ELSE LET d == digitsOnly(r)
           isDeleting == Len(r) < Len(prev)
       IN  IF d = <<>> THEN <<>>
           ELSE IF shouldTreatAsInternational(r, d) THEN normalizeInternational(r)
           ELSE IF Len(d) = 10 THEN formatRuFromDigits(d)
           ELSE IF startsWith(d, <<"7">>) \/ startsWith(d, <<"8">>) THEN formatRuFromDigits(d)
           ELSE IF isDeleting THEN normalizeInternational(r)
           ELSE normalizeInternational(r)

\* the deletion branch handing the raw text back
handleChange_deleteRaw(r, prev) ==
  IF r = <<>> THEN <<>>
  ELSE IF isRuMask(r) \/ isInternationalE164ish(r) THEN r
  ELSE LET d == digitsOnly(r)
           isDeleting == Len(r) < Len(prev)
       IN  IF d = <<>> THEN <<>>
           ELSE IF shouldTreatAsInternational(r, d) THEN normalizeInternational(r)
           ELSE IF Len(d) = 10 THEN formatRuFromDigits(d)
           ELSE IF startsWith(d, <<"7">>) \/ startsWith(d, <<"8">>) THEN formatRuFromDigits(d)
           ELSE IF isDeleting THEN r
           ELSE normalizeInternational(r)

handleChange(r, prev) ==
  IF r = <<>> THEN <<>>
  ELSE IF isRuMask(r) \/ isInternationalE164ish(r) THEN r
  ELSE LET d == digitsOnly(r)
           isDeleting == Len(r) < Len(prev)
       IN  IF d = <<>> THEN <<>>
           ELSE IF shouldTreatAsInternational(r, d) THEN normalizeInternational(r)
           ELSE IF Len(d) = 10 THEN formatRuFromDigits(d)
           ELSE IF startsWith(d, <<"7">>) \/ startsWith(d, <<"8">>) THEN formatRuFromDigits(d)
           ELSE IF isDeleting THEN normalizeInternational(r)
           ELSE normalizeInternational(r)

handlePaste(pastedRaw) ==
  LET r == trim(pastedRaw)
      d == digitsOnly(r)
  IN  IF d = <<>> THEN <<>>
      ELSE IF startsWith(r, <<"+">>) /\ ~startsWith(r, <<"+", "7">>)
        THEN <<"+">> \o slice(d, 0, 15)
      ELSE IF Len(d) = 11 /\ (startsWith(d, <<"7">>) \/ startsWith(d, <<"8">>))
        THEN formatRuFromDigits(d)
      ELSE IF Len(d) = 10 THEN formatRuFromDigits(d)
      ELSE IF Len(d) > 10 /\ ~startsWith(d, <<"7">>) /\ ~startsWith(d, <<"8">>)
        THEN <<"+">> \o slice(d, 0, 15)
      ELSE IF startsWith(r, <<"+">>) THEN <<"+">> \o slice(d, 0, 15)
      ELSE slice(d, 0, 15)

----------------------------------------------------------------------------
(* part_000 *)

formatRu(digits) ==
  IF digits = <<>> THEN <<>>
  ELSE
    LET d0 == digitsOnly(digits)
        d1 == IF Len(d0) = 11 /\ startsWith(d0, <<"8">>) THEN <<"7">> \o sliceFrom(d0, 1) ELSE d0
        d2 == IF Len(d1) = 10 THEN <<"7">> \o d1 ELSE d1
    IN  IF ~(Len(d2) >= 1 /\ startsWith(d2, <<"7">>)) THEN d2
        ELSE ruMask(slice(d2, 0, 11))

normalizeInternational_part000(r) ==
  LET trimmed == trim(r)
      hasPlus == startsWith(trimmed, <<"+">>)
      d == slice(digitsOnly(trimmed), 0, 15)
  IN  IF d = <<>> THEN <<>>
      ELSE IF hasPlus THEN <<"+">> \o d ELSE d

shouldTreatAsInternational_part000(r, d) ==
  LET trimmed == trim(r)
  IN  IF startsWith(trimmed, <<"+">>) /\ ~startsWith(trimmed, <<"+", "7">>) THEN TRUE
      ELSE IF Len(d) > 11 /\ ~startsWith(d, <<"7">>) /\ ~startsWith(d, <<"8">>) THEN TRUE
      ELSE IF Len(d) > 10 /\ ~startsWith(d, <<"7">>) /\ ~startsWith(d, <<"8">>) THEN TRUE
      ELSE FALSE

\* the string handed to onChange; the handler calls onChange exactly once
handleChange_part000(r, previousValue) ==
  IF Len(r) < Len(previousValue) /\ digitsOnly(r) = <<>> THEN <<>>
  ELSE LET d == digitsOnly(r)
       IN  IF d = <<>> THEN <<>>
           ELSE IF shouldTreatAsInternational_part000(r, d)
             THEN normalizeInternational_part000(r)
           ELSE IF Len(d) = 10 THEN formatRu(d)
           ELSE IF Len(d) >= 1 /\ (startsWith(d, <<"7">>) \/ startsWith(d, <<"8">>))
             THEN formatRu(d)
           ELSE normalizeInternational_part000(r)

\* the field value after the paste: `current` when onChange is not called
handlePaste_part000(text, current) ==
  LET pastedRaw == trim(text)
      d == digitsOnly(pastedRaw)
      hasPlus == startsWith(pastedRaw, <<"+">>)
  IN  IF d = <<>> THEN current
      ELSE IF hasPlus /\ ~startsWith(pastedRaw, <<"+", "7">>)
        THEN <<"+">> \o slice(d, 0, 15)
      ELSE IF Len(d) = 11 /\ (startsWith(d, <<"7">>) \/ startsWith(d, <<"8">>))
        THEN formatRu(d)
      ELSE IF Len(d) = 10 THEN formatRu(d)
      ELSE IF Len(d) > 10 /\ ~startsWith(d, <<"7">>) /\ ~startsWith(d, <<"8">>)
        THEN <<"+">> \o slice(d, 0, 15)
      ELSE IF hasPlus THEN <<"+">> \o slice(d, 0, 15)
      ELSE slice(d, 0, 15)

----------------------------------------------------------------------------
(* The component: what an event commits to the field *)

\* <Input onChange>: field.onChange(handleChange(event.target.value, field.value))
onChange(v, r, current) ==
  IF v = "PhoneInput" THEN handleChange(r, current)
  ELSE handleChange_part000(r, current)

\* <Input onPaste>
onPaste(v, text, current) ==
  IF v = "PhoneInput" THEN handlePaste(text)
  ELSE handlePaste_part000(text, current)

formatRuOf(v, d) ==
  IF v = "PhoneInput" THEN formatRuFromDigits(d) ELSE formatRu(d)

classifierOf(v, r, d) ==
  IF v = "PhoneInput" THEN shouldTreatAsInternational(r, d)
  ELSE shouldTreatAsInternational_part000(r, d)

----------------------------------------------------------------------------
(* Raw texts offered to the handlers *)

DigitAt == <<"0", "1", "2", "3", "4", "5", "6", "7", "8", "9">>

FirstDigits == {"3", "7", "8"}

Leads == {<<>>, <<"+">>, <<" ", "+">>, <<"(">>}

Styles == {"plain", "ru", "trail"}

KeyDigits == {"7", "9"}

\* n digits: the given first digit, then a digit that tells the positions apart
Body(first, n) ==
  [i \in 1..n |-> IF i = 1 THEN first ELSE DigitAt[(i % 10) + 1]]

Punct(i) ==
  IF i = 1 THEN <<"(">>
  ELSE IF i = 4 THEN <<")">>
  ELSE IF i = 7 \/ i = 9 THEN <<"-">>
  ELSE <<>>

RECURSIVE RuStyled(_, _)
RuStyled(body, i) ==
  IF i > Len(body) THEN <<>>
  ELSE IF i = Len(body) THEN <<body[i]>>
  ELSE <<body[i]>> \o Punct(i) \o RuStyled(body, i + 1)

Styled(body, st) ==
  IF st = "ru" THEN RuStyled(body, 1)
  ELSE IF st = "trail" THEN body \o <<" ">>
  ELSE body

RawInputs ==
  { lead \o Styled(Body(f, n), st) :
      lead \in Leads, f \in FirstDigits, n \in 0..MaxDigits, st \in Styles }

\* lengths on both sides of every length test of the handlers
EventLengths == {0, 1, 5, 10, 11, 12, 16}

\* texts the user enters or pastes into the mounted component
EventInputs ==
  { lead \o Styled(Body(f, n), st) :
      lead \in Leads, f \in FirstDigits, n \in EventLengths, st \in Styles }

\* previous values: none, one character shorter than raw, one character longer
PrevValues(r) ==
  {<<>>, r \o <<"0">>} \cup (IF r = <<>> THEN {} ELSE {SubSeq(r, 1, Len(r) - 1)})

NoSession == <<"#">>

session(v) == IF v = <<>> THEN <<>> ELSE NoSession

----------------------------------------------------------------------------
(* The mounted component *)

Init ==
  /\ variant \in Variants
  /\ value = <<>>
  /\ raw = <<>>
  /\ op = "mount"
  /\ keys = <<>>
  /\ prev1 = <<>> /\ prev2 = <<>> /\ out1 = <<>> /\ out2 = <<>>
  /\ intl = FALSE /\ fmt = <<>> /\ fmt2 = <<>>

\* the user replaces the field content by r (select-all and type, autofill)
Change(r) ==
  /\ raw' = r
  /\ value' = onChange(variant, r, value)
  /\ op' = "change"
  /\ keys' = session(value')
  /\ UNCHANGED <<variant, fnVars>>

\* the user appends one digit to a field filled by keystrokes only
Key(c) ==
  /\ keys # NoSession
  /\ Len(keys) < MaxKeys
  /\ raw' = value \o <<c>>
  /\ value' = onChange(variant, raw', value)
  /\ op' = "key"
  /\ keys' = keys \o <<c>>
  /\ UNCHANGED <<variant, fnVars>>

\* the user deletes the last character
Backspace ==
  /\ value # <<>>
  /\ raw' = SubSeq(value, 1, Len(value) - 1)
  /\ value' = onChange(variant, raw', value)
  /\ op' = "backspace"
  /\ keys' = session(value')
  /\ UNCHANGED <<variant, fnVars>>

\* the user pastes text
Paste(text) ==
  /\ raw' = text
  /\ value' = onPaste(variant, text, value)
  /\ op' = "paste"
  /\ keys' = session(value')
  /\ UNCHANGED <<variant, fnVars>>

Next ==
  \/ \E r \in EventInputs : Change(r)
  \/ \E c \in KeyDigits : Key(c)
  \/ Backspace
  \/ \E text \in EventInputs : Paste(text)

Spec == Init /\ [][Next]_vars

----------------------------------------------------------------------------
(* The pure functions applied to drawn inputs *)

InitFn ==
  /\ variant \in Variants
  /\ raw \in RawInputs
  /\ prev1 \in PrevValues(raw)
  /\ prev2 \in PrevValues(raw)
  /\ op = "ready"
  /\ value = <<>> /\ keys = <<>>
  /\ out1 = <<>> /\ out2 = <<>>
  /\ intl = FALSE /\ fmt = <<>> /\ fmt2 = <<>>

ApplyHandleChange ==
  /\ op = "ready"
  /\ out1' = onChange(variant, raw, prev1)
  /\ out2' = onChange(variant, raw, prev2)
  /\ intl' = classifierOf(variant, raw, digitsOnly(raw))
  /\ op' = "handled"
  /\ UNCHANGED <<variant, value, raw, keys, prev1, prev2, fmt, fmt2>>

ApplyFormatRu ==
  /\ op = "ready"
  /\ fmt' = formatRuOf(variant, digitsOnly(raw))
  /\ fmt2' = formatRuOf(variant, digitsOnly(fmt'))
  /\ op' = "formatted"
  /\ UNCHANGED <<variant, value, raw, keys, prev1, prev2, out1, out2, intl>>

NextFn == ApplyHandleChange \/ ApplyFormatRu

SpecFn == InitFn /\ [][NextFn]_vars

----------------------------------------------------------------------------
(* Shapes of a committed value *)

IsPlusDigits(v) ==
  /\ Len(v) >= 2 /\ Len(v) <= 16
  /\ v[1] = "+"
  /\ AllDigits(Tail(v))

IsBareDigits(v) == v # <<>> /\ AllDigits(v)

\* +7, +7(D.., +7(DDD)D.., +7(DDD)DDD-D.., +7(DDD)DDD-DD-DD
IsRuShape(v) ==
  /\ Len(v) \in {2, 4, 5, 6, 8, 9, 10, 12, 13, 16}
  /\ \A i \in 1..Len(v) :
       IF i = 1 THEN v[i] = "+"
       ELSE IF i = 2 THEN v[i] = "7"
       ELSE IF i = 3 THEN v[i] = "("
       ELSE IF i = 7 THEN v[i] = ")"
       ELSE IF i = 11 \/ i = 14 THEN v[i] = "-"
       ELSE IsDigit(v[i])

NumDigits(v) == Len(digitsOnly(v))

startsWith7or8(d) == startsWith(d, <<"7">>) \/ startsWith(d, <<"8">>)

plusNot7(r) == startsWith(trim(r), <<"+">>) /\ ~startsWith(trim(r), <<"+", "7">>)

----------------------------------------------------------------------------
(* C1 *)

\* C1 (as stated): in PhoneInput.tsx every committed value is empty, a full or
\* partial RU mask, or '+' followed by 1 to 15 digits; bare digits never occur.
C1_NoBareDigits ==
  variant = "PhoneInput" =>
    (value = <<>> \/ IsRuShape(value) \/ IsPlusDigits(value))

\* C1 (amended): in PhoneInput.tsx every committed value is empty, a full or
\* partial RU mask, '+' followed by 1 to 15 digits, or a non-empty string of
\* decimal digits only.
C1_CommittedShapes ==
  variant = "PhoneInput" =>
    (value = <<>> \/ IsRuShape(value) \/ IsPlusDigits(value) \/ IsBareDigits(value))

C1_Witness ==
  /\ variant = "PhoneInput"
  /\ op = "paste"
  /\ ~plusNot7(raw)
  /\ NumDigits(raw) = 5
  /\ IsBareDigits(value)

----------------------------------------------------------------------------
(* C2 *)

\* the three cases of the typed handler as the claim states them
C2_ThreeCases(r) ==
  LET d == digitsOnly(r)
  IN  IF r = <<>> \/ d = <<>> THEN <<>>
      ELSE IF shouldTreatAsInternational(r, d) THEN normalizeInternational(r)
      ELSE formatRuFromDigits(d)

\* C2 (as stated): handleChange(raw, prev) is '' for a raw text without digits,
\* normalizeInternational(raw) for an international one and
\* formatRuFromDigits(digitsOnly(raw)) in every other case.
C2_OnlyThreeCases ==
  (op = "handled" /\ variant = "PhoneInput") =>
    (out1 = C2_ThreeCases(raw) /\ out2 = C2_ThreeCases(raw))

\* the cases of the amended claim
C2_FiveCases(r) ==
  LET d == digitsOnly(r)
  IN  IF r = <<>> \/ d = <<>> THEN <<>>
      ELSE IF isInternationalE164ish(r) THEN r
      ELSE IF shouldTreatAsInternational(r, d) THEN normalizeInternational(r)
      ELSE IF Len(d) # 10 /\ ~startsWith7or8(d) THEN normalizeInternational(r)
      ELSE formatRuFromDigits(d)

\* C2 (amended): handleChange(raw, prev) is '' for a raw text without digits;
\* raw itself when raw is '+' followed by 10 to 15 digits; normalizeInternational(raw)
\* when raw is international, or when its digits are not 10 long and do not start
\* with 7 or 8; formatRuFromDigits(digitsOnly(raw)) in every other case.
C2_Cases ==
  (op = "handled" /\ variant = "PhoneInput") =>
    (out1 = C2_FiveCases(raw) /\ out2 = C2_FiveCases(raw))

C2_Witness ==
  /\ op = "handled" /\ variant = "PhoneInput"
  /\ isInternationalE164ish(raw)
  /\ startsWith(raw, <<"+", "7">>)
  /\ out1 = raw
  /\ out1 # formatRuFromDigits(digitsOnly(raw))

----------------------------------------------------------------------------
(* C3 *)

\* C3: in PhoneInput.tsx a paste without any digit leaves the committed value
\* as it was.
C3_PasteWithoutDigitsKeepsValue ==
  [][(op' = "paste" /\ variant = "PhoneInput" /\ digitsOnly(raw') = <<>>)
       => value' = value]_vars

----------------------------------------------------------------------------
(* C4 *)

\* C4: in PhoneInput.tsx, for a raw text with a digit that the classifier takes
\* as international, handleChange returns normalizeInternational(raw), and that
\* string starts with '+'.
C4_InternationalStartsWithPlus ==
  (op = "handled" /\ variant = "PhoneInput" /\ digitsOnly(raw) # <<>> /\ intl) =>
    /\ out1 = normalizeInternational(raw)
    /\ out2 = normalizeInternational(raw)
    /\ startsWith(out1, <<"+">>)
    /\ startsWith(out2, <<"+">>)

C4_Witness ==
  /\ op = "handled" /\ variant = "PhoneInput"
  /\ intl
  /\ ~startsWith(trim(raw), <<"+">>)
  /\ NumDigits(raw) > 10
  /\ out1 = <<"+">> \o slice(digitsOnly(raw), 0, 15)

----------------------------------------------------------------------------
(* C5 *)

\* C5: in PhoneInput.tsx the string returned by handleChange or handlePaste
\* holds at most 15 decimal digits.
C5_AtMost15Digits ==
  (variant = "PhoneInput" /\ op \in {"change", "key", "backspace", "paste"}) =>
    NumDigits(value) <= 15

----------------------------------------------------------------------------
(* C6 *)

\* C6 (as stated): in PhoneInput.tsx a raw text whose digits start with 7 or 8
\* is never classified international.
C6_Leading7or8AlwaysDomestic ==
  (op = "handled" /\ variant = "PhoneInput" /\ startsWith7or8(digitsOnly(raw))) =>
    intl = FALSE

\* C6 (amended): in PhoneInput.tsx a raw text whose digits start with 7 or 8 and
\* whose trimmed text does not start with a '+' other than '+7' is never
\* classified international.
C6_Leading7or8Domestic ==
  (op = "handled" /\ variant = "PhoneInput" /\ startsWith7or8(digitsOnly(raw))
     /\ ~plusNot7(raw)) =>
    intl = FALSE

C6_Witness ==
  /\ op = "handled" /\ variant = "PhoneInput"
  /\ startsWith(digitsOnly(raw), <<"8">>)
  /\ NumDigits(raw) > 11
  /\ ~plusNot7(raw)
  /\ intl = FALSE

----------------------------------------------------------------------------
(* C7 *)

\* C7: in both variants the RU formatter applied to the digits of its own
\* output gives that output again.
C7_FormatRuIdempotent ==
  op = "formatted" => fmt2 = fmt

C7_Witness ==
  /\ op = "formatted"
  /\ variant = "part_000"
  /\ NumDigits(raw) = 10
  /\ isRuMask(fmt)
  /\ digitsOnly(fmt) # digitsOnly(raw)
  /\ fmt2 = fmt

----------------------------------------------------------------------------
(* C8 *)

\* C8: in both variants a backspace on a full or partial RU mask commits a value
\* with no more digits than the raw text and strictly fewer than the value before.
C8_BackspaceShrinks ==
  [][(op' = "backspace" /\ IsRuShape(value)) =>
       (NumDigits(value') <= NumDigits(raw') /\ NumDigits(value') < NumDigits(value))]_vars

----------------------------------------------------------------------------
(* C9 *)

\* the partial mask of the first digits of a number that starts with 7
C9_PartialMask(k) ==
  LET n == Len(k)
  IN  IF n <= 1 THEN <<"+", "7">>
      ELSE IF n <= 4 THEN <<"+", "7", "(">> \o SubSeq(k, 2, n)
      ELSE IF n <= 7 THEN <<"+", "7", "(">> \o SubSeq(k, 2, 4) \o <<")">> \o SubSeq(k, 5, n)
      ELSE IF n <= 9
        THEN <<"+", "7", "(">> \o SubSeq(k, 2, 4) \o <<")">> \o SubSeq(k, 5, 7)
               \o <<"-">> \o SubSeq(k, 8, n)
      ELSE <<"+", "7", "(">> \o SubSeq(k, 2, 4) \o <<")">> \o SubSeq(k, 5, 7)
               \o <<"-">> \o SubSeq(k, 8, 9) \o <<"-">> \o SubSeq(k, 10, n)

\* C9: in both variants, typing an 11-digit number that starts with 7 one digit
\* at a time into the empty field leaves, after the k-th keystroke, the partial
\* mask of its first k digits, and after the 11th the full mask.
C9_TypingKeepsMaskPrefix ==
  (keys # NoSession /\ Len(keys) >= 1 /\ Len(keys) <= 11 /\ keys[1] = "7") =>
    value = C9_PartialMask(keys)

----------------------------------------------------------------------------
(* C10 *)

\* C10: in both variants the typed handler commits the same string for a raw
\* text whatever the previous value is.
C10_PreviousValueIgnored ==
  op = "handled" => out1 = out2

C10_Witness ==
  /\ op = "handled"
  /\ Len(raw) < Len(prev1)
  /\ Len(prev2) < Len(raw)
  /\ out1 # <<>>
  /\ out1 = out2

====
